---- MODULE Spec2Model ----
(***************************************************************************)
(* Model of setup_hr_db.py: the Fitbit intraday heart-rate synchroniser.   *)
(*                                                                         *)
(* Dates are proleptic Gregorian ordinals (date.toordinal()), so that      *)
(* (end_date - start_date).days is integer subtraction and                 *)
(* start_date + timedelta(n) is integer addition.                          *)
(* Time is counted in ticks, TicksPerSecond ticks to the second.           *)
(*                                                                         *)
(* Three specifications share the definitions:                             *)
(*   Spec        one process per run of main(), the store and the token    *)
(*               file surviving from run to run;                           *)
(*   SpecRange   daterange(start_date, end_date) on its own;               *)
(*   SpecLimiter rate_limited(maxPerSecond) around an arbitrary function,  *)
(*               called sequentially.                                      *)
(***************************************************************************)
EXTENDS Integers, Sequences, FiniteSets, TLC

VARIABLES
    pc,             \* position of the process in the program
    err,            \* the exception that ended the process, or "none"
    today,          \* date.today() of the system clock
    store,          \* rows of the table fitbit.heart_rate
    tokens_file,    \* contents of tokens.json
    refresh_calls,  \* calls of client.client.refresh_token() in this process
    start_date,     \* main: start_date
    end_date,       \* main: end_date
    dr,             \* get_intra_hr: the dates daterange yields
    x,              \* main: x, the payloads get_intra_hr returns (val)
    wi,             \* main: index in x of the next day to write
    written,        \* outcome of each add_hr_to_db call of this process
    store0,         \* the store when the process started
    prev,           \* what the previous process did
    fetch_times,    \* wall time of each get_daily_data call of this process
    now,            \* wall-clock ticks since the process started
    cpu,            \* processor-time ticks the process has used
    clock_kind,     \* what time.clock() measures on this platform
    maxPerSecond,   \* rate_limited: maxPerSecond
    lastTimeCalled, \* rate_limited.decorate: lastTimeCalled[0]
    inv_start,      \* wall time at which each call of func started
    inv_end,        \* wall time at which each call of func returned
    probe,          \* set_client: how the probe and the refresh ended
    client,         \* main: client, the tokens the client object holds
    used,           \* the clients get_daily_data was called with
    tokens_read,    \* set_client: tokens, the dict get_tokens returned
    tokens_arg,     \* set_client: the argument tokens_file
    other_file      \* contents of a credential document other than tokens.json

vars == << pc, err, today, store, tokens_file, refresh_calls, start_date,
           end_date, dr, x, wi, written, store0, prev, fetch_times, now, cpu,
           clock_kind, maxPerSecond, lastTimeCalled, inv_start, inv_end,
           probe, client, used, tokens_read, tokens_arg, other_file >>

timeVars == << now, cpu >>
limiterObs == << inv_start, inv_end >>
runVars == << start_date, end_date, dr, x, wi, written, fetch_times >>
diskVars == << store, tokens_file >>
clientVars == << probe, client, used, tokens_read >>
sourceVars == << tokens_arg, other_file >>

----------------------------------------------------------------------------
(* Bounds of the model *)

MaxDays == 3            \* today ranges up to DefaultDate + MaxDays
DaysBefore == 1         \* today ranges from DefaultDate - DaysBefore
MaxTime == 7            \* the clocks stop at MaxTime ticks
MaxRefresh == 2         \* token generations the remote service hands out
MaxCalls == 3           \* SpecLimiter: calls of the wrapped function
RangeSpan == 5          \* SpecRange: start_date, end_date within this span

TicksPerSecond == 2

None == "None"

\* start_date=None, end_date=None: no date (no date has ordinal 0)
NoDate == 0

----------------------------------------------------------------------------
(* Pure functions *)

\* date(2015, 12, 26).toordinal()
DefaultDate == 735958

\* range(k): 0 .. k-1 as a sequence, empty when k <= 0
range(k) == [i \in 1..k |-> i - 1]

\* mutants of range_stop: an exclusive end date; the distance of the dates
range_stop_exclusive(s, e) == e - s

range_stop_distance(s, e) == IF e >= s THEN (e - s) + 1 ELSE (s - e) + 1

\* daterange: the argument of range, int((end_date - start_date).days) + 1
range_stop(s, e) == (e - s) + 1

\* mutant of daterange: the dates after start_date
daterange_after_start(s, e) == [i \in 1 .. (e - s) |-> s + i]

\* daterange: for n in range(...): yield start_date + timedelta(n)
daterange(s, e) ==
    LET r == range(range_stop(s, e))
    IN  [i \in 1..Len(r) |-> s + r[i]]


----------------------------------------------------------------------------
(* rate_limited *)

\* minInterval = 1.0 / float(maxPerSecond), in ticks; maxPerSecond # 0
minInterval(m) ==
    IF m > 0 THEN TicksPerSecond \div m ELSE 0 - (TicksPerSecond \div (0 - m))

\* time.clock(): wall-clock time on Windows, processor time elsewhere
Clock == IF clock_kind = "wall" THEN now ELSE cpu

\* mutant of leftToWait: the subtraction the other way round
leftToWait_inverted(clock, last, minInt) == (clock - last) - minInt

\* elapsed = time.clock() - lastTimeCalled[0]; leftToWait = minInterval - elapsed
leftToWait(clock, last, minInt) == minInt - (clock - last)

\* if leftToWait > 0: time.sleep(leftToWait)   -- the ticks slept
Slept(left) == IF left > 0 THEN left ELSE 0

----------------------------------------------------------------------------
(* The remote service *)

RestingRates == {58, 60}

\* the payloads client.intraday_time_series can return for base_date d;
\* intraday = None stands for a payload without 'activities-heart-intraday'
Payloads(d) ==
    { [dateTime |-> d, restingHeartRate |-> r, intraday |-> i] :
        r \in RestingRates, i \in {"dataset", None} }

\* client.client.refresh_token(): a new token pair
refresh_token(tokens) ==
    [access_token |-> tokens.ACCESS_TOKEN + 1,
     refresh_token |-> tokens.REFRESH_TOKEN + 1]

----------------------------------------------------------------------------
(* The store and its writer *)

Dates(st) == { r.date : r \in st }

\* mutants of commit: session.merge(obj), which overwrites the row of that
\* date; a table without its primary key
commit_merge(st, obj) ==
    [store |-> { r \in st : r.date # obj.date } \cup {obj}, exc |-> None]

commit_no_key(st, obj) == [store |-> st \cup {obj}, exc |-> None]

\* session.add(obj); session.commit() on a table whose primary key is date
commit(st, obj) ==
    IF obj.date \in Dates(st)
    THEN [store |-> st, exc |-> "IntegrityError"]
    ELSE [store |-> st \cup {obj}, exc |-> None]

\* the row add_hr_to_db builds from a payload
Row(data) ==
    [date |-> data.dateTime, hr |-> data.intraday, r_hr |-> data.restingHeartRate]

\* mutant of add_hr_to_db: one transaction for the run, rolled back by a failure
add_hr_to_db_batch(st, data) ==
    IF data.intraday = None
    THEN [store |-> store0, exc |-> "AttributeError"]
    ELSE commit(st, Row(data))

\* add_hr_to_db(data): the store afterwards and the exception raised
add_hr_to_db(st, data) ==
    IF data.intraday = None
    THEN [store |-> st, exc |-> "AttributeError"]
    ELSE commit(st, Row(data))

\* mutant of main_catches: no except clause
main_catches_nothing(e) == FALSE

\* main: except exc.IntegrityError
main_catches(e) == e = "IntegrityError"

\* mutant of get_most_recent_date: ordered by date ascending
get_most_recent_date_oldest(st) ==
    IF st = {}
    THEN DefaultDate
    ELSE CHOOSE d \in Dates(st) : \A o \in Dates(st) : d <= o

\* get_most_recent_date: first row by date descending, d.date; a missing row
\* raises AttributeError, which returns the default date
get_most_recent_date(st) ==
    IF st = {}
    THEN DefaultDate
    ELSE CHOOSE d \in Dates(st) : \A o \in Dates(st) : o <= d

\* update_tokens: the tokens with the new pair
update_tokens(tokens, params) ==
    [tokens EXCEPT !.REFRESH_TOKEN = params.refresh_token,
                   !.ACCESS_TOKEN = params.access_token]

\* fitbit.Fitbit(..., access_token=..., refresh_token=...): the tokens the
\* client object holds
Fitbit(tokens) ==
    [access_token |-> tokens.ACCESS_TOKEN, refresh_token |-> tokens.REFRESH_TOKEN]

\* set_client has not called get_tokens yet
NoTokens == [CLIENT_ID |-> None, CLIENT_SECRET |-> None,
             ACCESS_TOKEN |-> 0 - 1, REFRESH_TOKEN |-> 0 - 1]

\* a document just opened with open(outfile, 'w'): nothing in it
EmptyDocument == [CLIENT_ID |-> "", CLIENT_SECRET |-> "",
                  ACCESS_TOKEN |-> 0 - 1, REFRESH_TOKEN |-> 0 - 1]

\* no client object yet
NoClient == [access_token |-> 0 - 1, refresh_token |-> 0 - 1]

\* mutants of set_client: refresh whatever the probe says; carry on with the
\* old client when the probe fails; carry on when refresh_token() raises
set_client_always_refreshes(tokens, probe_ok, refresh_ok) ==
    IF refresh_ok
    THEN [exc |-> None, client |-> Fitbit(update_tokens(tokens, refresh_token(tokens))),
          tokens |-> update_tokens(tokens, refresh_token(tokens)),
          dumped |-> TRUE, calls |-> 1]
    ELSE [exc |-> "RefreshError", client |-> Fitbit(tokens), tokens |-> tokens,
          dumped |-> FALSE, calls |-> 1]

set_client_never_refreshes(tokens, probe_ok, refresh_ok) ==
    [exc |-> None, client |-> Fitbit(tokens), tokens |-> tokens,
     dumped |-> FALSE, calls |-> 0]

set_client_swallows(tokens, probe_ok, refresh_ok) ==
    IF probe_ok
    THEN [exc |-> None, client |-> Fitbit(tokens), tokens |-> tokens,
          dumped |-> FALSE, calls |-> 0]
    ELSE IF refresh_ok
    THEN [exc |-> None, client |-> Fitbit(update_tokens(tokens, refresh_token(tokens))),
          tokens |-> update_tokens(tokens, refresh_token(tokens)),
          dumped |-> TRUE, calls |-> 1]
    ELSE [exc |-> None, client |-> Fitbit(tokens), tokens |-> tokens,
          dumped |-> FALSE, calls |-> 1]

\* set_client on the tokens get_tokens read, given how the probe and the
\* refresh end: the exception raised, the client returned, the tokens after
\* update_tokens, whether update_tokens dumped them to its outfile, and the
\* calls of refresh_token()
set_client(tokens, probe_ok, refresh_ok) ==
    IF probe_ok
    THEN [exc |-> None, client |-> Fitbit(tokens), tokens |-> tokens,
          dumped |-> FALSE, calls |-> 0]
    ELSE IF refresh_ok
    THEN [exc |-> None, client |-> Fitbit(update_tokens(tokens, refresh_token(tokens))),
          tokens |-> update_tokens(tokens, refresh_token(tokens)),
          dumped |-> TRUE, calls |-> 1]
    ELSE [exc |-> "RefreshError", client |-> Fitbit(tokens), tokens |-> tokens,
          dumped |-> FALSE, calls |-> 1]

\* set_client: tokens_file = 'tokens.json' when the argument is None
in_file(arg) == IF arg = None THEN "tokens.json" ELSE arg

\* get_tokens(in_file): the contents of the document read
get_tokens(name) == IF name = "tokens.json" THEN tokens_file ELSE other_file

\* mutant of planned: the default branch, yesterday, whatever the arguments
planned_yesterday(s, e, t) == << t - 1 >>

\* get_intra_hr: the dates it asks the remote service for
planned(s, e, t) ==
    IF s # NoDate /\ e # NoDate THEN daterange(s, e) ELSE << t - 1 >>

----------------------------------------------------------------------------
(* Spec: one process per run of main() *)

NoRun == [start_date |-> NoDate, end_date |-> NoDate, x |-> << >>, done |-> FALSE]

\* nothing of main has run yet
NothingDone ==
    /\ err = None
    /\ refresh_calls = 0
    /\ dr = << >>
    /\ x = << >>
    /\ wi = 1
    /\ written = << >>
    /\ fetch_times = << >>
    /\ probe = "none"
    /\ client = NoClient
    /\ tokens_read = NoTokens
    /\ used = {}

\* a process starts: its clocks at 0, lastTimeCalled = [0.0]
ClocksAtStart ==
    /\ now = 0
    /\ cpu = 0
    /\ lastTimeCalled = 0
    /\ inv_start = << >>
    /\ inv_end = << >>

\* an empty table and the token file as first written
DiskAtStart ==
    /\ store = {}
    /\ store0 = {}
    /\ tokens_file = [CLIENT_ID |-> "id", CLIENT_SECRET |-> "secret",
                      ACCESS_TOKEN |-> 0, REFRESH_TOKEN |-> 0]
    /\ prev = NoRun
    /\ other_file = [CLIENT_ID |-> "id2", CLIENT_SECRET |-> "secret2",
                     ACCESS_TOKEN |-> 0, REFRESH_TOKEN |-> 0]

Init ==
    /\ pc = "set_client"
    /\ today \in DefaultDate - DaysBefore .. DefaultDate + MaxDays
    /\ DiskAtStart
    /\ clock_kind \in {"wall", "processor"}
    /\ maxPerSecond = 1
    /\ tokens_arg = None
    /\ start_date = NoDate
    /\ end_date = NoDate
    /\ NothingDone
    /\ ClocksAtStart

\* set_client, the probe and the refresh ending as given; update_tokens
\* dumps to its default outfile, tokens.json
SetClientStep(probe_ok, refresh_ok) ==
    LET r == set_client(get_tokens(in_file(tokens_arg)), probe_ok, refresh_ok)
    IN  /\ pc = "set_client"
        /\ probe' = IF probe_ok THEN "ok"
                  ELSE IF refresh_ok THEN "refreshed" ELSE "refresh_raised"
        /\ refresh_calls' = refresh_calls + r.calls
        /\ client' = r.client
        /\ tokens_read' = r.tokens
        /\ tokens_file' = IF r.dumped THEN r.tokens ELSE tokens_file
        /\ IF r.exc = None
           THEN pc' = "get_most_recent_date" /\ err' = err
           ELSE pc' = "crashed" /\ err' = r.exc
        /\ UNCHANGED << today, store, runVars, store0, prev, timeVars,
                        clock_kind, maxPerSecond, lastTimeCalled, limiterObs,
                        used, sourceVars >>

\* set_client: the probe client.sleep() succeeds
SetClient == SetClientStep(TRUE, TRUE)

\* set_client: the probe raises, update_tokens refreshes and rewrites tokens.json
SetClientRefresh ==
    /\ get_tokens(in_file(tokens_arg)).ACCESS_TOKEN < MaxRefresh
    /\ SetClientStep(FALSE, TRUE)

\* set_client: the probe raises and refresh_token() raises too
SetClientRefreshRaises == SetClientStep(FALSE, FALSE)

\* main: start_date = get_most_recent_date(...); end_date = today - 1 day
GetMostRecentDate ==
    /\ pc = "get_most_recent_date"
    /\ start_date' = get_most_recent_date(store)
    /\ end_date' = today - 1
    /\ pc' = "rateLimitedFunction"
    /\ UNCHANGED << err, today, diskVars, refresh_calls, dr, x, wi, written,
                    fetch_times, store0, prev, timeVars, clock_kind,
                    maxPerSecond, lastTimeCalled, limiterObs >>
    /\ UNCHANGED << clientVars, sourceVars >>

\* rateLimitedFunction up to the call of func, and get_intra_hr up to its loop
RateLimitedFunction ==
    /\ pc = "rateLimitedFunction"
    /\ LET left == leftToWait(Clock, lastTimeCalled, minInterval(maxPerSecond))
       IN  /\ now + Slept(left) <= MaxTime
           /\ now' = now + Slept(left)
    /\ dr' = planned(start_date, end_date, today)
    /\ pc' = "get_daily_data"
    /\ UNCHANGED << err, today, diskVars, refresh_calls, start_date, end_date,
                    x, wi, written, fetch_times, store0, prev, cpu, clock_kind,
                    maxPerSecond, lastTimeCalled, limiterObs >>
    /\ UNCHANGED << clientVars, sourceVars >>

\* mutant of GetDailyData: each payload is written as soon as it is fetched
GetDailyDataStreaming ==
    /\ pc = "get_daily_data"
    /\ Len(x) < Len(dr)
    /\ \E p \in Payloads(dr[Len(x) + 1]) :
           /\ x' = Append(x, p)
           /\ store' = add_hr_to_db(store, p).store
    /\ fetch_times' = Append(fetch_times, now)
    /\ used' = used \cup {client}
    /\ UNCHANGED << pc, err, today, tokens_file, refresh_calls, start_date,
                    end_date, dr, wi, written, store0, prev, timeVars,
                    clock_kind, maxPerSecond, lastTimeCalled, limiterObs,
                    probe, client, tokens_read, sourceVars >>

\* get_daily_data for the next date of dr returns a payload
GetDailyData ==
    /\ pc = "get_daily_data"
    /\ Len(x) < Len(dr)
    /\ \E p \in Payloads(dr[Len(x) + 1]) : x' = Append(x, p)
    /\ fetch_times' = Append(fetch_times, now)
    /\ used' = used \cup {client}
    /\ UNCHANGED << pc, err, today, diskVars, refresh_calls, start_date,
                    end_date, dr, wi, written, store0, prev, timeVars,
                    clock_kind, maxPerSecond, lastTimeCalled, limiterObs >>
    /\ UNCHANGED << probe, client, tokens_read, sourceVars >>

\* get_daily_data raises: nothing in get_intra_hr or main catches it
GetDailyDataRaises ==
    /\ pc = "get_daily_data"
    /\ Len(x) < Len(dr)
    /\ fetch_times' = Append(fetch_times, now)
    /\ pc' = "crashed"
    /\ err' = "FetchError"
    /\ UNCHANGED << today, diskVars, refresh_calls, start_date, end_date, dr,
                    x, wi, written, store0, prev, timeVars, clock_kind,
                    maxPerSecond, lastTimeCalled, limiterObs >>
    /\ used' = used \cup {client}
    /\ UNCHANGED << probe, client, tokens_read, sourceVars >>

\* get_intra_hr returns val; rateLimitedFunction sets lastTimeCalled[0]
GetIntraHrReturn ==
    /\ pc = "get_daily_data"
    /\ Len(x) = Len(dr)
    /\ lastTimeCalled' = Clock
    /\ pc' = IF Len(x) = 0 THEN "done" ELSE "add_hr_to_db"
    /\ UNCHANGED << err, today, diskVars, refresh_calls, runVars, store0, prev,
                    timeVars, clock_kind, maxPerSecond, limiterObs >>
    /\ UNCHANGED << clientVars, sourceVars >>

\* main: one turn of  for day in x: try: add_hr_to_db(day) except IntegrityError
AddHrToDb ==
    /\ pc = "add_hr_to_db"
    /\ wi <= Len(x)
    /\ LET res == add_hr_to_db(store, x[wi])
       IN  /\ store' = res.store
           /\ IF res.exc = None \/ main_catches(res.exc)
              THEN /\ written' = Append(written, res.exc)
                   /\ wi' = wi + 1
                   /\ pc' = IF wi + 1 > Len(x) THEN "done" ELSE "add_hr_to_db"
                   /\ err' = err
              ELSE /\ pc' = "crashed"
                   /\ err' = res.exc
                   /\ UNCHANGED << wi, written >>
    /\ UNCHANGED << today, tokens_file, refresh_calls, start_date, end_date,
                    dr, x, fetch_times, store0, prev, timeVars, clock_kind,
                    maxPerSecond, lastTimeCalled, limiterObs >>
    /\ UNCHANGED << clientVars, sourceVars >>

\* time passes while the process runs; it may or may not be using the processor
\* (the clocks are last read when the rate-limited function returns)
Tick ==
    /\ pc \notin {"add_hr_to_db", "done", "crashed"}
    /\ now < MaxTime
    /\ now' = now + 1
    /\ cpu' \in {cpu, cpu + 1}
    /\ UNCHANGED << pc, err, today, diskVars, refresh_calls, runVars, store0,
                    prev, clock_kind, maxPerSecond, lastTimeCalled, limiterObs >>
    /\ UNCHANGED << clientVars, sourceVars >>

\* the process has ended; the program is started again, the same or a later day
NextRun ==
    /\ pc \in {"done", "crashed"}
    /\ pc' = "set_client"
    /\ today' \in today .. DefaultDate + MaxDays
    /\ prev' = IF pc = "done"
                THEN [start_date |-> start_date, end_date |-> end_date,
                      x |-> x, done |-> TRUE]
                ELSE NoRun
    /\ store0' = store
    /\ err' = None
    /\ refresh_calls' = 0
    /\ start_date' = NoDate
    /\ end_date' = NoDate
    /\ dr' = << >>
    /\ x' = << >>
    /\ wi' = 1
    /\ written' = << >>
    /\ fetch_times' = << >>
    /\ probe' = "none"
    /\ client' = NoClient
    /\ tokens_read' = NoTokens
    /\ used' = {}
    /\ now' = 0
    /\ cpu' = 0
    /\ lastTimeCalled' = 0
    /\ UNCHANGED limiterObs
    /\ UNCHANGED << diskVars, clock_kind, maxPerSecond >>
    /\ UNCHANGED sourceVars

\* the steps of one process
RunStep ==
    \/ SetClient
    \/ SetClientRefresh
    \/ SetClientRefreshRaises
    \/ GetMostRecentDate
    \/ RateLimitedFunction
    \/ GetDailyData
    \/ GetDailyDataRaises
    \/ GetIntraHrReturn
    \/ AddHrToDb

\* Spec: run after run; the clocks of a process advance only while it sleeps
Next == RunStep \/ NextRun

Spec == Init /\ [][Next]_vars

\* SpecTimed: one process, with time passing between its steps
NextTimed == RunStep \/ Tick

SpecTimed == Init /\ [][NextTimed]_vars

----------------------------------------------------------------------------
(* SpecRange: the generator daterange(start_date, end_date), date by date *)

RangeDates == DefaultDate .. DefaultDate + RangeSpan

InitRange ==
    /\ pc = "daterange"
    /\ start_date \in RangeDates
    /\ end_date \in RangeDates
    /\ today = DefaultDate
    /\ DiskAtStart
    /\ clock_kind = "wall"
    /\ maxPerSecond = 1
    /\ tokens_arg = None
    /\ NothingDone
    /\ ClocksAtStart

\* the loop yields start_date + timedelta(n) for the next n of range(...)
Yield ==
    /\ pc = "daterange"
    /\ Len(dr) < Len(range(range_stop(start_date, end_date)))
    /\ dr' = Append(dr, start_date + range(range_stop(start_date, end_date))[Len(dr) + 1])
    /\ UNCHANGED << pc, err, today, diskVars, refresh_calls, start_date,
                    end_date, x, wi, written, fetch_times, store0, prev,
                    timeVars, clock_kind, maxPerSecond, lastTimeCalled,
                    limiterObs >>
    /\ UNCHANGED << clientVars, sourceVars >>

\* range(...) is exhausted: the generator ends
StopIteration ==
    /\ pc = "daterange"
    /\ Len(dr) >= Len(range(range_stop(start_date, end_date)))
    /\ pc' = "StopIteration"
    /\ UNCHANGED << err, today, diskVars, refresh_calls, runVars, store0, prev,
                    timeVars, clock_kind, maxPerSecond, lastTimeCalled,
                    limiterObs >>
    /\ UNCHANGED << clientVars, sourceVars >>

NextRange == Yield \/ StopIteration

SpecRange == InitRange /\ [][NextRange]_vars

----------------------------------------------------------------------------
(* SpecLimiter: rate_limited(maxPerSecond)(func), called MaxCalls times *)

Rates == {0 - TicksPerSecond, 0 - 1, 0, 1, TicksPerSecond}

InitLimiter ==
    /\ pc = "rate_limited"
    /\ maxPerSecond \in Rates
    /\ clock_kind \in {"wall", "processor"}
    /\ today = DefaultDate
    /\ tokens_arg = None
    /\ DiskAtStart
    /\ start_date = NoDate
    /\ end_date = NoDate
    /\ NothingDone
    /\ ClocksAtStart

\* rate_limited(maxPerSecond): 1.0 / float(0) raises ZeroDivisionError
RateLimited ==
    /\ pc = "rate_limited"
    /\ IF maxPerSecond = 0
       THEN pc' = "crashed" /\ err' = "ZeroDivisionError"
       ELSE pc' = "decorated" /\ err' = err
    /\ UNCHANGED << today, diskVars, refresh_calls, runVars, store0, prev,
                    timeVars, clock_kind, maxPerSecond, lastTimeCalled,
                    limiterObs >>
    /\ UNCHANGED << clientVars, sourceVars >>

\* rateLimitedFunction: wait what is left of minInterval, then call func
LimiterCall ==
    /\ pc = "decorated"
    /\ Len(inv_start) < MaxCalls
    /\ LET left == leftToWait(Clock, lastTimeCalled, minInterval(maxPerSecond))
       IN  /\ now + Slept(left) <= MaxTime
           /\ now' = now + Slept(left)
           /\ inv_start' = Append(inv_start, now + Slept(left))
    /\ pc' = "func"
    /\ UNCHANGED << err, today, diskVars, refresh_calls, runVars, store0, prev,
                    cpu, clock_kind, maxPerSecond, lastTimeCalled, inv_end >>
    /\ UNCHANGED << clientVars, sourceVars >>

\* func returns: lastTimeCalled[0] = time.clock()
LimiterReturn ==
    /\ pc = "func"
    /\ lastTimeCalled' = Clock
    /\ inv_end' = Append(inv_end, now)
    /\ pc' = "decorated"
    /\ UNCHANGED << err, today, diskVars, refresh_calls, runVars, store0, prev,
                    timeVars, clock_kind, maxPerSecond, inv_start >>
    /\ UNCHANGED << clientVars, sourceVars >>

NextLimiter == RateLimited \/ LimiterCall \/ LimiterReturn \/ Tick

SpecLimiter == InitLimiter /\ [][NextLimiter]_vars

----------------------------------------------------------------------------
(* SpecClient: set_client(tokens_file) call after call, statement by       *)
(* statement; update_tokens always dumps to its default outfile tokens.json *)

TokenFiles == {None, "tokens.json", "creds.json"}

InitClient ==
    /\ pc = "set_client"
    /\ tokens_arg \in TokenFiles
    /\ today = DefaultDate
    /\ store = {}
    /\ store0 = {}
    /\ prev = NoRun
    /\ tokens_file = [CLIENT_ID |-> "id", CLIENT_SECRET |-> "secret",
                      ACCESS_TOKEN |-> 0, REFRESH_TOKEN |-> 0]
    /\ \E g \in 0 .. MaxRefresh - 1 :
           other_file = [CLIENT_ID |-> "id2", CLIENT_SECRET |-> "secret2",
                         ACCESS_TOKEN |-> g, REFRESH_TOKEN |-> g]
    /\ clock_kind = "wall"
    /\ maxPerSecond = 1
    /\ start_date = NoDate
    /\ end_date = NoDate
    /\ NothingDone
    /\ ClocksAtStart

\* the variables set_client and update_tokens leave alone
notClient == << today, store, runVars, store0, prev, timeVars, clock_kind,
                maxPerSecond, lastTimeCalled, limiterObs, used, sourceVars >>

\* tokens = get_tokens(in_file); client = fitbit.Fitbit(...); client.sleep()
\* returns; return client
ProbeReturns ==
    /\ pc = "set_client"
    /\ get_tokens(in_file(tokens_arg)) # EmptyDocument
    /\ tokens_read' = get_tokens(in_file(tokens_arg))
    /\ client' = Fitbit(get_tokens(in_file(tokens_arg)))
    /\ probe' = "ok"
    /\ pc' = "returned"
    /\ UNCHANGED << err, refresh_calls, tokens_file, notClient >>

\* client.sleep() raises; update_tokens: refresh_token() returns and the two
\* tokens are put in the dict
RefreshReturns ==
    /\ pc = "set_client"
    /\ get_tokens(in_file(tokens_arg)) # EmptyDocument
    /\ get_tokens(in_file(tokens_arg)).ACCESS_TOKEN < MaxRefresh
    /\ LET t == get_tokens(in_file(tokens_arg))
       IN  /\ tokens_read' = update_tokens(t, refresh_token(t))
           /\ client' = Fitbit(update_tokens(t, refresh_token(t)))
    /\ refresh_calls' = refresh_calls + 1
    /\ probe' = "refreshed"
    /\ pc' = "open_outfile"
    /\ UNCHANGED << err, tokens_file, notClient >>

\* client.sleep() raises; update_tokens: refresh_token() raises
RefreshRaises ==
    /\ pc = "set_client"
    /\ get_tokens(in_file(tokens_arg)) # EmptyDocument
    /\ tokens_read' = get_tokens(in_file(tokens_arg))
    /\ client' = Fitbit(get_tokens(in_file(tokens_arg)))
    /\ refresh_calls' = refresh_calls + 1
    /\ probe' = "refresh_raised"
    /\ pc' = "crashed"
    /\ err' = "RefreshError"
    /\ UNCHANGED << tokens_file, notClient >>

\* update_tokens: with open(outfile, 'w') as out  -- tokens.json is emptied
OpenOutfile ==
    /\ pc = "open_outfile"
    /\ tokens_file' = EmptyDocument
    /\ pc' = "json_dump"
    /\ UNCHANGED << err, refresh_calls, clientVars, notClient >>

\* update_tokens: json.dump(tokens, out); the file is closed; return
JsonDump ==
    /\ pc = "json_dump"
    /\ tokens_file' = tokens_read
    /\ pc' = "returned"
    /\ UNCHANGED << err, refresh_calls, clientVars, notClient >>

\* the process is killed between the open and the dump
Killed ==
    /\ pc = "json_dump"
    /\ pc' = "crashed"
    /\ err' = "Killed"
    /\ UNCHANGED << refresh_calls, tokens_file, clientVars, notClient >>

\* get_tokens: json.load(f) raises on a document with nothing in it
GetTokensRaises ==
    /\ pc = "set_client"
    /\ get_tokens(in_file(tokens_arg)) = EmptyDocument
    /\ pc' = "crashed"
    /\ err' = "ValueError"
    /\ UNCHANGED << refresh_calls, tokens_file, clientVars, notClient >>

\* a later process calls set_client, with some argument
CallAgain ==
    /\ pc \in {"returned", "crashed"}
    /\ pc' = "set_client"
    /\ tokens_arg' \in TokenFiles
    /\ err' = None
    /\ refresh_calls' = 0
    /\ probe' = "none"
    /\ client' = NoClient
    /\ tokens_read' = NoTokens
    /\ UNCHANGED << today, store, tokens_file, other_file, runVars, store0,
                    prev, timeVars, clock_kind, maxPerSecond, lastTimeCalled,
                    limiterObs, used >>

NextClient ==
    \/ ProbeReturns
    \/ RefreshReturns
    \/ RefreshRaises
    \/ OpenOutfile
    \/ JsonDump
    \/ Killed
    \/ GetTokensRaises
    \/ CallAgain

SpecClient == InitClient /\ [][NextClient]_vars

----------------------------------------------------------------------------
(* Claims about daterange, under SpecRange *)

\* C1: for start_date <= end_date the exhausted generator has yielded exactly
\* (end_date - start_date).days + 1 dates, the first start_date, the last
\* end_date, each one day after the one before it.
C1_DaterangeInclusive ==
    (pc = "StopIteration" /\ start_date <= end_date) =>
        /\ Len(dr) = (end_date - start_date) + 1
        /\ dr[1] = start_date
        /\ dr[Len(dr)] = end_date
        /\ \A i \in 1 .. Len(dr) - 1 : dr[i + 1] = dr[i] + 1
        /\ dr = daterange(start_date, end_date)

C1_Witness ==
    /\ pc = "StopIteration"
    /\ end_date = start_date + 2
    /\ Len(dr) = 3

\* C2: for start_date > end_date the generator yields nothing, never raises,
\* and ends.
C2_DaterangeEmpty ==
    start_date > end_date =>
        /\ dr = << >>
        /\ daterange(start_date, end_date) = << >>
        /\ err = None
        /\ pc \in {"daterange", "StopIteration"}
        /\ pc = "daterange" => ENABLED StopIteration

C2_Witness ==
    /\ pc = "StopIteration"
    /\ start_date > end_date + 1
    /\ dr = << >>

----------------------------------------------------------------------------
(* Claims about runs of main, under Spec *)

IsPrefix(a, b) == Len(a) <= Len(b) /\ \A i \in 1 .. Len(a) : a[i] = b[i]

\* this process has the date range of the previous one, which ran to its end,
\* and the remote service has so far returned what it returned then
SameRunAgain ==
    /\ prev.done
    /\ start_date = prev.start_date
    /\ end_date = prev.end_date
    /\ IsPrefix(x, prev.x)

\* C3: a run over the date range of the completed run before it, with the
\* same payloads, leaves the store as it found it, and each of its writes is
\* a duplicate that is skipped; it ends having tried every payload.
C3_SecondRunIdempotent ==
    SameRunAgain =>
        /\ store = store0
        /\ \A i \in 1 .. Len(written) : written[i] = "IntegrityError"
        /\ err \in {None, "FetchError"}
        /\ pc = "done" => Len(written) = Len(x)

C3_Witness ==
    /\ SameRunAgain
    /\ pc = "done"
    /\ x = prev.x
    /\ Len(x) >= 1
    /\ Len(written) = Len(x)

\* C4: a fetch that fails does not make the run fatal.
C4_FetchFailureIsolated == Len(fetch_times) > Len(x) => pc # "crashed"

\* C5: a write for a date that already has a row leaves the store as it is,
\* raises nothing out of main, and the loop goes on to the next payload; a
\* run that ends normally has tried every payload.
C5_DuplicateSkipped ==
    /\ [][ ( /\ pc = "add_hr_to_db"
             /\ x[wi].intraday # None
             /\ x[wi].dateTime \in Dates(store) )
           => ( /\ store' = store
                /\ err' = err
                /\ written' = Append(written, "IntegrityError")
                /\ wi' = wi + 1
                /\ pc' = IF wi < Len(x) THEN "add_hr_to_db" ELSE "done" ) ]_vars
    /\ [](pc = "done" => Len(written) = Len(x))

C5_Witness ==
    \E i, j \in 1 .. Len(written) :
        /\ i < j
        /\ written[i] = "IntegrityError"
        /\ written[j] = None
        /\ x[j].dateTime \in Dates(store) \ Dates(store0)

\* C6: a payload without the intraday series is skipped and the run goes on.
C6_MalformedPayloadSkipped ==
    \A i \in 1 .. Len(x) : (x[i].intraday = None /\ wi = i) => pc # "crashed"

\* C7: the store never holds two rows of one date, and no step changes or
\* removes a row it holds.
C7_OneRowPerDateForEver ==
    /\ [](\A r1, r2 \in store : r1.date = r2.date => r1 = r2)
    /\ [][store \subseteq store']_vars

C7_Witness ==
    \E i \in 1 .. Len(written) : \E r \in store :
        /\ written[i] = "IntegrityError"
        /\ r.date = x[i].dateTime
        /\ r.r_hr # x[i].restingHeartRate
        /\ r \in store0

----------------------------------------------------------------------------
(* Claims about time *)

\* C8 (SpecTimed): consecutive get_daily_data calls of a run are at least
\* minInterval apart.
C8_FetchesRateLimited ==
    \A i \in 2 .. Len(fetch_times) :
        fetch_times[i] - fetch_times[i - 1] >= minInterval(maxPerSecond)

\* C9 (SpecLimiter): with maxPerSecond > 0 each call of the wrapped function
\* starts at least minInterval after the call before it returned; three calls
\* at maxPerSecond = 1 take at least 2 seconds.
C9_CallsSpaced ==
    maxPerSecond > 0 =>
        /\ \A i \in 2 .. Len(inv_start) :
               inv_start[i] - inv_end[i - 1] >= minInterval(maxPerSecond)
        /\ (maxPerSecond = 1 /\ Len(inv_end) >= 3) =>
               inv_end[3] - inv_start[1] >= 2 * TicksPerSecond

C9_Witness ==
    /\ maxPerSecond = 1
    /\ Len(inv_end) = 3
    /\ inv_start[2] = inv_end[1] + TicksPerSecond

\* C10 (SpecLimiter): a rate of zero or less is rejected when the limiter is
\* constructed, so the wrapped function is never called under it.
C10_NonPositiveRateRejected ==
    maxPerSecond <= 0 =>
        /\ pc \in {"rate_limited", "crashed"}
        /\ inv_start = << >>

----------------------------------------------------------------------------
(* Claims about the watermark, the client and the backfill, under Spec *)

C12_WatermarkNotInFuture == start_date # NoDate => start_date <= today

\* C13: a probe that fails makes set_client call refresh_token() once, a
\* probe that succeeds not at all; the client set_client returns holds the
\* tokens last written, and every fetch of the run is made with it.
C13_OneRefresh ==
    /\ refresh_calls <= 1
    /\ probe = "ok" => refresh_calls = 0
    /\ probe \in {"refreshed", "refresh_raised"} => refresh_calls = 1
    /\ probe = "refreshed" => /\ client = Fitbit(tokens_file)
                              /\ client.access_token > 0
    /\ used \subseteq {client}

C13_Witness ==
    /\ probe = "refreshed"
    /\ refresh_calls = 1
    /\ Len(x) >= 2
    /\ used = {client}

\* C15: when refresh_token() raises, the process ends there: one call and no
\* more, the credential documents as they were, no fetch and no write.
C15_RefreshFailureFatal ==
    /\ [](probe = "refresh_raised" =>
            /\ pc = "crashed"
            /\ err = "RefreshError"
            /\ refresh_calls = 1
            /\ fetch_times = << >>
            /\ x = << >>
            /\ written = << >>
            /\ store = store0)
    /\ [][probe' = "refresh_raised" =>
            (tokens_file' = tokens_file /\ other_file' = other_file)]_vars

C15_Witness ==
    /\ probe = "refresh_raised"
    /\ pc = "crashed"
    /\ store0 # {}

\* C16: the row of every payload committed in this run is in the store,
\* whatever the later writes of the run did.
C16_CommitsSurvive ==
    \A i \in 1 .. Len(written) : written[i] = None => Row(x[i]) \in store

C16_Witness ==
    /\ pc = "crashed"
    /\ err = "AttributeError"
    /\ \E i \in 1 .. Len(written) : written[i] = None

C18_RefreshOnlyAtConstruction ==
    /\ [][(refresh_calls' > refresh_calls \/ tokens_file' # tokens_file) =>
            /\ pc = "set_client"
            /\ fetch_times = << >> /\ fetch_times' = << >>
            /\ written = << >> /\ written' = << >>
            /\ store = store0 /\ store' = store]_vars
    /\ []((probe # "ok" /\ (fetch_times # << >> \/ written # << >>)) =>
            (probe = "refreshed" /\ refresh_calls = 1))

C18_Witness ==
    /\ probe = "refreshed"
    /\ refresh_calls = 1
    /\ written # << >>

\* C19: a run that ends normally leaves a row for every day from its
\* watermark to yesterday; the dates it added are the days of that range that
\* had no row before; with a store that was not empty the first write is the
\* watermark day, rejected as a duplicate.
C19_BackfillComplete ==
    pc = "done" =>
        /\ \A d \in start_date .. end_date : d \in Dates(store)
        /\ Dates(store) \ Dates(store0) =
               { d \in start_date .. end_date : d \notin Dates(store0) }
        /\ store0 # {} => /\ Len(written) >= 1
                          /\ x[1].dateTime = start_date
                          /\ written[1] = "IntegrityError"

C19_Witness ==
    /\ pc = "done"
    /\ store0 # {}
    /\ Len(written) >= 3
    /\ written[1] = "IntegrityError"
    /\ written[2] = None
    /\ written[3] = None

\* C20: a write happens only when every planned date has been fetched, and a
\* run ended by a fetch that raised leaves the store as it found it.
C20_FetchBeforeWrite ==
    /\ (written # << >> \/ store # store0 \/ pc = "add_hr_to_db") =>
           (Len(x) = Len(dr) /\ Len(fetch_times) = Len(dr))
    /\ err = "FetchError" => (store = store0 /\ written = << >>)

C20_Witness ==
    /\ err = "FetchError"
    /\ pc = "crashed"
    /\ Len(x) >= 1
    /\ store = store0

----------------------------------------------------------------------------
(* Claim about the credential document, under SpecClient *)

\* C14: when set_client has returned after a refresh, the document it read
\* the credentials from holds the two new tokens, with the client id and
\* secret it had; and that document never holds the new token of one kind
\* with the old token of the other.
C14_SourceHoldsNewTokens ==
    LET doc == get_tokens(in_file(tokens_arg))
    IN  /\ (probe = "refreshed" /\ pc = "returned") =>
               /\ doc.ACCESS_TOKEN = client.access_token
               /\ doc.REFRESH_TOKEN = client.refresh_token
               /\ doc.CLIENT_ID = tokens_read.CLIENT_ID
               /\ doc.CLIENT_SECRET = tokens_read.CLIENT_SECRET
        /\ doc.ACCESS_TOKEN = doc.REFRESH_TOKEN

====
